---- MODULE Spec2Model ----
(***************************************************************************)
(* wasm-pack-dev-toolchain, example crate: the two exported functions      *)
(* greet and add (example/src/lib.rs) and the browser test suite           *)
(* (example/tests/web.rs), as a state machine.                             *)
(*                                                                         *)
(* A Rust string is the sequence of its Unicode scalar values, a JS string *)
(* the sequence of its UTF-16 code units, a JS number an IEEE-754 double   *)
(* written m * 2^e with m odd (or m = e = 0).  i32 keeps its 32-bit width. *)
(***************************************************************************)
EXTENDS Integers, Sequences, FiniteSets, TLC

VARIABLES
    overflow_checks, \* the build's overflow-checks setting (on in dev, off in release)
    input,           \* the function the host calls and the inputs it passes
    held,            \* the results the host holds, oldest first, each with its inputs
    pc,              \* per test: "ready", "call", "assert" or "done"
    running,         \* the test whose body holds the single thread, or "none"
    result,          \* per test: the local `result` of the test body
    report           \* the verdicts the test runner has reported, in order

vars == <<overflow_checks, input, held, pc, running, result, report>>

----------------------------------------------------------------------------
(* Bounds of the model.                                                    *)

\* the longest name the host passes to greet
MaxNameLen == 2
\* the most results the host holds at once before it discards one
MaxHeld == 2

----------------------------------------------------------------------------
(* Values.                                                                 *)

I32_MAX == 2147483647
I32_MIN == -I32_MAX - 1

\* the i32 operands the host passes: the edges of the range, zero and its
\* neighbours, and the operands of test_add
I32Samples == {I32_MIN, I32_MIN + 1, -1, 0, 1, 2, 3, I32_MAX - 1, I32_MAX}

\* the characters of the host's names: a space, an ASCII letter, a non-ASCII
\* character of the basic plane (U+00E9) and one beyond it (U+1F600)
NameChars == {32, 87, 233, 128512}

RECURSIVE SeqsUpTo(_, _)
SeqsUpTo(S, n) ==
    IF n = 0 THEN {<< >>}
    ELSE LET shorter == SeqsUpTo(S, n - 1)
         IN  shorter \cup {Append(s, c) : s \in shorter, c \in S}

\* "World"
World == <<87, 111, 114, 108, 100>>
\* "Hello, World!"
HelloWorld == <<72, 101, 108, 108, 111, 44, 32, 87, 111, 114, 108, 100, 33>>

Names == SeqsUpTo(NameChars, MaxNameLen) \cup {World}

None == [some |-> FALSE]
Some(v) == [some |-> TRUE, val |-> v]

Trap == [trap |-> TRUE]
Returned(v) == [trap |-> FALSE, value |-> v]

----------------------------------------------------------------------------
(* JsValue: strings.                                                       *)

\* the UTF-16 code units of one Unicode scalar value
Utf16Char(c) ==
    IF c < 65536 THEN <<c>>
    ELSE <<55296 + ((c - 65536) \div 1024), 56320 + ((c - 65536) % 1024)>>

RECURSIVE Utf16Encode(_)
Utf16Encode(s) ==
    IF s = << >> THEN << >> ELSE Utf16Char(Head(s)) \o Utf16Encode(Tail(s))

IsHighSurrogate(u) == 55296 <= u /\ u <= 56319
IsLowSurrogate(u) == 56320 <= u /\ u <= 57343

\* the scalar values of a JS string; an unpaired surrogate reads as U+FFFD
RECURSIVE Utf16Decode(_)
Utf16Decode(u) ==
    IF u = << >> THEN << >>
    ELSE IF IsHighSurrogate(u[1]) /\ Len(u) >= 2 /\ IsLowSurrogate(u[2])
         THEN <<65536 + (u[1] - 55296) * 1024 + (u[2] - 56320)>>
              \o Utf16Decode(Tail(Tail(u)))
    ELSE IF IsHighSurrogate(u[1]) \/ IsLowSurrogate(u[1])
         THEN <<65533>> \o Utf16Decode(Tail(u))
    ELSE <<u[1]>> \o Utf16Decode(Tail(u))

\* JsValue::from(String)
JsValueFromString(s) == [kind |-> "string", units |-> Utf16Encode(s)]

\* JsValue::as_string
as_string(v) == IF v.kind = "string" THEN Some(Utf16Decode(v.units)) ELSE None

----------------------------------------------------------------------------
(* JsValue: numbers.                                                       *)

\* the significand of an IEEE-754 double holds 53 bits
F64_SIG_BITS == 53

\* n * 2^e0 written m * 2^e with m odd, or m = e = 0
RECURSIVE Dyadic(_, _)
Dyadic(n, e0) ==
    IF n = 0 THEN [m |-> 0, e |-> 0]
    ELSE IF n % 2 = 0 THEN Dyadic(n \div 2, e0 + 1)
    ELSE [m |-> n, e |-> e0]

RECURSIVE BitLen(_)
BitLen(n) == IF n = 0 THEN 0 ELSE 1 + BitLen(n \div 2)

\* d rounded to a significand of `bits` bits, to nearest, ties to even
RoundSig(d, bits) ==
    LET mag  == IF d.m < 0 THEN -d.m ELSE d.m
        drop == BitLen(mag) - bits
    IN  IF drop <= 0 THEN d
        ELSE LET q    == mag \div (2 ^ drop)
                 r    == mag % (2 ^ drop)
                 half == 2 ^ (drop - 1)
                 up   == r > half \/ (r = half /\ q % 2 = 1)
                 kept == IF up THEN q + 1 ELSE q
             IN  Dyadic(IF d.m < 0 THEN -kept ELSE kept, d.e + drop)

\* `n as f32 as f64`: a single-precision significand holds 24 bits
F32FromI32(n) == RoundSig(Dyadic(n, 0), 24)

\* `n as f64`
F64FromI32(n) == RoundSig(Dyadic(n, 0), F64_SIG_BITS)

\* JsValue::from(i32)
JsValueFromI32(n) == [kind |-> "number", num |-> F64FromI32(n)]

\* JsValue::as_f64
as_f64(v) == IF v.kind = "number" THEN Some(v.num) ELSE None

----------------------------------------------------------------------------
(* lib.rs                                                                  *)

\* format!("Hello, {:.1}!", name): a precision cuts the name to one character
FormatPrecision(name) ==
    <<72, 101, 108, 108, 111, 44, 32>>
        \o (IF Len(name) > 1 THEN <<name[1]>> ELSE name) \o <<33>>

\* format!("Hello, {}!", name)
Format(name) == <<72, 101, 108, 108, 111, 44, 32>> \o name \o <<33>>

\* greet refusing an empty name
GreetValidated(name) ==
    IF name = << >> THEN Trap ELSE Returned(JsValueFromString(Format(name)))

\* greet writing into a buffer that is not cleared while the host holds a result
GreetStaticBuffer(name) ==
    Returned(JsValueFromString(
        (IF Len(held) > 0 THEN Format(name) ELSE << >>) \o Format(name)))

\* pub fn greet(name: &str) -> JsValue
greet(name) == Returned(JsValueFromString(Format(name)))

\* whether a + b leaves the i32 range
Overflows(a, b) ==
    \/ b > 0 /\ a > I32_MAX - b
    \/ b < 0 /\ a < I32_MIN - b

\* a.saturating_add(b) on overflow
SaturatingAdd(a, b) == IF b > 0 THEN I32_MAX ELSE I32_MIN

\* the two's-complement sum of an overflowing a + b
WrappingAdd(a, b) ==
    IF b > 0 THEN ((a - I32_MAX) - 1) + ((b - I32_MAX) - 1)
    ELSE ((a + I32_MAX) + 1) + ((b + I32_MAX) + 1)

\* a - b in place of a + b
I32Sub(a, b) ==
    IF b = I32_MIN THEN Trap
    ELSE IF Overflows(a, -b)
         THEN IF overflow_checks THEN Trap ELSE Returned(WrappingAdd(a, -b))
         ELSE Returned(a - b)

\* a + b on i32: panics on overflow under overflow-checks, wraps without
I32Add(a, b) ==
    IF Overflows(a, b)
    THEN IF overflow_checks THEN Trap ELSE Returned(WrappingAdd(a, b))
    ELSE Returned(a + b)

\* add returning its first operand
AddIgnoresB(a, b) == Returned(JsValueFromI32(a))

\* pub fn add(a: i32, b: i32) -> JsValue
add(a, b) ==
    LET sum == I32Add(a, b)
    IN  IF sum.trap THEN Trap ELSE Returned(JsValueFromI32(sum.value))

----------------------------------------------------------------------------
(* The host calling the exported functions.                                *)

Tests == {"test_greet", "test_add"}

Inputs ==
    {[fn |-> "greet", args |-> <<name>>] : name \in Names}
        \cup {[fn |-> "add", args |-> <<a, b>>] : a \in I32Samples, b \in I32Samples}

Init ==
    /\ overflow_checks \in BOOLEAN
    /\ input \in Inputs
    /\ held = << >>
    /\ pc = [t \in Tests |-> "ready"]
    /\ running = "none"
    /\ result = [t \in Tests |-> None]
    /\ report = << >>

runner == <<pc, running, result, report>>

\* greet returning views of one buffer that each call resets: the results
\* the host already holds read as the empty string afterwards
HostGreetResetsBuffer ==
    /\ running = "none"
    /\ input.fn = "greet"
    /\ Len(held) < MaxHeld
    /\ held' = Append([i \in 1..Len(held) |->
                          [held[i] EXCEPT !.out = Returned(JsValueFromString(<< >>))]],
                      [fn |-> "greet", args |-> input.args,
                       out |-> greet(input.args[1])])
    /\ UNCHANGED <<overflow_checks, input, runner>>

\* the host calls greet on its name and keeps the outcome
HostGreet ==
    /\ running = "none"
    /\ input.fn = "greet"
    /\ Len(held) < MaxHeld
    /\ held' = Append(held, [fn |-> "greet", args |-> input.args,
                             out |-> greet(input.args[1])])
    /\ UNCHANGED <<overflow_checks, input, runner>>

\* the host calls add on its operands and keeps the outcome
HostAdd ==
    /\ running = "none"
    /\ input.fn = "add"
    /\ Len(held) < MaxHeld
    /\ held' = Append(held, [fn |-> "add", args |-> input.args,
                             out |-> add(input.args[1], input.args[2])])
    /\ UNCHANGED <<overflow_checks, input, runner>>

\* the host discards a result it holds
HostDiscard(i) ==
    /\ running = "none"
    /\ i \in 1..Len(held)
    /\ held' = SubSeq(held, 1, i - 1) \o SubSeq(held, i + 1, Len(held))
    /\ UNCHANGED <<overflow_checks, input, runner>>

----------------------------------------------------------------------------
(* tests/web.rs: the test runner polls each test's future on the single    *)
(* thread; a body runs until it returns or reaches an await, and a panic   *)
(* in a body is caught and reported as that test's failure.                *)

Finish(t, verdict) ==
    /\ pc' = [pc EXCEPT ![t] = "done"]
    /\ running' = "none"
    /\ report' = Append(report, [test |-> t, verdict |-> verdict])

\* a runner that stops polling once a verdict is in
PollUntilFirstVerdict(t) ==
    /\ running = "none"
    /\ pc[t] # "done"
    /\ report = << >>
    /\ running' = t
    /\ pc' = [pc EXCEPT ![t] = IF pc[t] = "ready" THEN "call" ELSE pc[t]]
    /\ UNCHANGED <<overflow_checks, input, held, result, report>>

\* the runner polls a test that has not finished
Poll(t) ==
    /\ running = "none"
    /\ pc[t] # "done"
    /\ running' = t
    /\ pc' = [pc EXCEPT ![t] = IF pc[t] = "ready" THEN "call" ELSE pc[t]]
    /\ UNCHANGED <<overflow_checks, input, held, result, report>>

\* a test body's `let result = ...`: a trap in the callee ends the body
CallStep(t, out) ==
    /\ running = t
    /\ pc[t] = "call"
    /\ result' = [result EXCEPT ![t] = out]
    /\ IF out.trap
       THEN Finish(t, "failed")
       ELSE /\ pc' = [pc EXCEPT ![t] = "assert"]
            /\ UNCHANGED <<running, report>>
    /\ UNCHANGED <<overflow_checks, input, held>>

\* a test body's assert_eq!(... .unwrap(), expected)
AssertStep(t, got, expected) ==
    /\ running = t
    /\ pc[t] = "assert"
    /\ Finish(t, IF got.some /\ got.val = expected THEN "passed" ELSE "failed")
    /\ UNCHANGED <<overflow_checks, input, held, result>>

\* let result = wasm_example::greet("World"); then an await that suspends
TestGreetCallAwait ==
    /\ running = "test_greet"
    /\ pc["test_greet"] = "call"
    /\ result' = [result EXCEPT !["test_greet"] = greet(World)]
    /\ pc' = [pc EXCEPT !["test_greet"] = "assert"]
    /\ running' = "none"
    /\ UNCHANGED <<overflow_checks, input, held, report>>

\* let result = wasm_example::greet("World");
TestGreetCall == CallStep("test_greet", greet(World))

\* assert_eq!(result.as_string().unwrap(), "Hello, World!");
TestGreetAssert ==
    AssertStep("test_greet", as_string(result["test_greet"].value), HelloWorld)

\* let result = wasm_example::add(2, 3);
TestAddCall == CallStep("test_add", add(2, 3))

\* assert_eq!(result.as_f64().unwrap(), 5.0);
TestAddAssert ==
    AssertStep("test_add", as_f64(result["test_add"].value), Dyadic(5, 0))

----------------------------------------------------------------------------

Next ==
    \/ HostGreet
    \/ HostAdd
    \/ \E i \in 1..MaxHeld : HostDiscard(i)
    \/ \E t \in Tests : Poll(t)
    \/ TestGreetCall
    \/ TestGreetAssert
    \/ TestAddCall
    \/ TestAddAssert

Spec == Init /\ [][Next]_vars

\* the runner polls every unfinished test, and a polled body runs on
FairSpec ==
    /\ Spec
    /\ \A t \in Tests : WF_vars(Poll(t))
    /\ WF_vars(TestGreetCall) /\ WF_vars(TestGreetAssert)
    /\ WF_vars(TestAddCall) /\ WF_vars(TestAddAssert)

----------------------------------------------------------------------------
(* Properties.                                                             *)

Held == 1..Len(held)
Greets == {i \in Held : held[i].fn = "greet"}
Adds == {i \in Held : held[i].fn = "add"}

\* a test's `result` is set once its call has run
HasResult(t) == pc[t] \in {"assert", "done"}
Reported(t) == \E k \in 1..Len(report) : report[k].test = t

\* whether the mathematical sum a + b lies in [-2^31, 2^31 - 1]
SumInRange(a, b) ==
    IF a >= 0 /\ b >= 0 THEN a <= I32_MAX - b
    ELSE IF a < 0 /\ b < 0 THEN a >= I32_MIN - b
    ELSE TRUE

\* ((a + b + 2^31) mod 2^32) - 2^31, computed on 16-bit halves
WrappedSum(a, b) ==
    LET lo == (a % 65536) + (b % 65536)
        hi == (((a \div 65536) % 65536) + ((b \div 65536) % 65536)
                  + (lo \div 65536)) % 65536
    IN  IF hi >= 32768 THEN (hi - 65536) * 65536 + (lo % 65536)
        ELSE hi * 65536 + (lo % 65536)

\* whether m * 2^e is the integer n
RECURSIVE ScalesTo(_, _, _)
ScalesTo(m, e, n) ==
    IF e = 0 THEN m = n ELSE n % 2 = 0 /\ ScalesTo(m, e - 1, n \div 2)

\* whether the JS value v is the number n
IsNumber(v, n) ==
    /\ as_f64(v).some
    /\ ScalesTo(as_f64(v).val.m, as_f64(v).val.e, n)

\* C1: greet(name) returns the text "Hello, " + name + "!", the name whole
\* and unchanged, for every name (empty and non-ASCII ones included); the
\* test's greet("World") returns "Hello, World!".
C1_GreetConcatenates ==
    /\ \A i \in Greets :
          /\ ~held[i].out.trap
          /\ as_string(held[i].out.value)
                 = Some(<<72, 101, 108, 108, 111, 44, 32>> \o held[i].args[1] \o <<33>>)
          /\ held[i].args[1] = << >> =>
                 as_string(held[i].out.value)
                     = Some(<<72, 101, 108, 108, 111, 44, 32, 33>>)
    /\ HasResult("test_greet") =>
          /\ ~result["test_greet"].trap
          /\ as_string(result["test_greet"].value) = Some(HelloWorld)

\* a two-character name with a character outside the basic plane came back
C1_Witness ==
    \E i \in Greets : held[i].args[1] = <<32, 128512>> /\ ~held[i].out.trap

\* C2: when a + b fits in i32, add(a, b) returns, and returns a + b.
C2_AddInRange ==
    /\ \A i \in Adds :
          SumInRange(held[i].args[1], held[i].args[2]) =>
              /\ ~held[i].out.trap
              /\ IsNumber(held[i].out.value, held[i].args[1] + held[i].args[2])
    /\ HasResult("test_add") =>
          /\ ~result["test_add"].trap
          /\ IsNumber(result["test_add"].value, 5)

\* add(-1, 1) returned
C2_Witness ==
    \E i \in Adds : held[i].args = <<-1, 1>> /\ ~held[i].out.trap

\* C3: when a + b leaves the i32 range, add(a, b) traps or returns the
\* two's-complement wrapped sum, and nothing else.
C3_AddOverflow ==
    \A i \in Adds :
        ~SumInRange(held[i].args[1], held[i].args[2]) =>
            \/ held[i].out.trap
            \/ IsNumber(held[i].out.value,
                        WrappedSum(held[i].args[1], held[i].args[2]))

\* add(i32::MAX, 1) returned a value
C3_Witness ==
    \E i \in Adds : held[i].args = <<I32_MAX, 1>> /\ ~held[i].out.trap

\* C4: greet never fails: every call of it ends with a result value.
C4_GreetTotal ==
    /\ \A i \in Greets : ~held[i].out.trap
    /\ HasResult("test_greet") => ~result["test_greet"].trap
    /\ (running = "none" /\ input.fn = "greet" /\ Len(held) < MaxHeld) =>
          ENABLED HostGreet

\* greet("") returned
C4_Witness ==
    \E i \in Greets : held[i].args[1] = << >> /\ ~held[i].out.trap

C6_HostKinds ==
    /\ \A i \in Adds :
          ~held[i].out.trap =>
              /\ as_f64(held[i].out.value) # None
              /\ as_string(held[i].out.value) = None
              /\ SumInRange(held[i].args[1], held[i].args[2]) =>
                     ScalesTo(as_f64(held[i].out.value).val.m,
                              as_f64(held[i].out.value).val.e,
                              held[i].args[1] + held[i].args[2])
    /\ \A i \in Greets :
          ~held[i].out.trap =>
              /\ as_string(held[i].out.value) # None
              /\ as_f64(held[i].out.value) = None
    /\ pc["test_greet"] = "assert" => as_string(result["test_greet"].value).some
    /\ pc["test_add"] = "assert" => as_f64(result["test_add"].value).some

\* add(i32::MAX, 0): a sum of 31 significant bits crossed the boundary
C6_Witness ==
    \E i \in Adds : held[i].args = <<I32_MAX, 0>> /\ ~held[i].out.trap

\* C7: a call changes nothing but its own new result: the caller's inputs
\* and the results returned before stay as they were.
C7_NoSideEffects ==
    [][/\ Len(held') > Len(held) =>
             /\ input' = input
             /\ Len(held') = Len(held) + 1
             /\ SubSeq(held', 1, Len(held)) = held
             /\ held'[Len(held')].args = input.args
             /\ UNCHANGED <<overflow_checks, runner>>
       /\ \A t \in Tests :
             (pc[t] = "call" /\ pc'[t] # "call") =>
                 /\ UNCHANGED <<overflow_checks, input, held>>
                 /\ \A u \in Tests \ {t} : result'[u] = result[u]
      ]_vars

\* the host holds two results and both tests have made their calls
C7_Witness ==
    /\ Len(held) = 2
    /\ held[1].fn = "greet"
    /\ HasResult("test_greet") /\ HasResult("test_add")

C9_RunsToCompletion ==
    /\ [](\A t \in Tests : pc[t] \in {"call", "assert"} => running = t)
    /\ \A t \in Tests : (pc[t] = "call") ~> (pc[t] = "done")

\* test_greet is between its call and its assertion
C9_Witness ==
    pc["test_greet"] = "assert" /\ running = "test_greet"

\* C10: add(a, b) and add(b, a) have the same outcome, and add(a, 0) and
\* add(0, a) return a.
C10_AddCommutes ==
    \A i \in Adds :
        LET a == held[i].args[1]
            b == held[i].args[2]
        IN  /\ held[i].out = add(b, a)
            /\ b = 0 => ~held[i].out.trap /\ IsNumber(held[i].out.value, a)
            /\ a = 0 => ~held[i].out.trap /\ IsNumber(held[i].out.value, b)

\* add(0, i32::MIN) returned
C10_Witness ==
    \E i \in Adds : held[i].args = <<0, I32_MIN>> /\ ~held[i].out.trap

====
